---- MODULE Spec2Model ----
(***************************************************************************)
(* Model of types/struct.go: the JSON codec and the native-interop         *)
(* adapters of the Struct / Value / ListValue types.                       *)
(*                                                                         *)
(* Text (JSON tokens, string payloads) is a sequence of one-character      *)
(* strings.  A code point outside printable ASCII is the atom "u" \o its   *)
(* four lowercase hex digits (NUL is "u0000"); the atom "xFF" is a byte    *)
(* that is not valid UTF-8.  An error message is a sequence too: each      *)
(* fixed part of its format is one element, a quoted text is spelled out.  *)
(***************************************************************************)
EXTENDS Integers, Sequences, FiniteSets, TLC

\* op    the last call made ("init" before any)
\* x     the Value the call works on: its receiver, or its result
\* x0    the Value as it was when the run began
\* b     JSON text: the argument of an UnmarshalJSON, the result of a MarshalJSON
\* nat   a native Go value: the argument of NewValue, the result of AsInterface
\* nat0  the native value as it was when the run began
\* res   how the last call ended: "ok", "err" (it returned an error) or "panic"
\* err   the error message of the last call, empty for a nil error
\* txt   the result [st, out] of json.Marshal on nat ("none" before it ran)
VARIABLES op, x, x0, b, nat, nat0, res, err, txt

vars == <<op, x, x0, b, nat, nat0, res, err, txt>>

(***************************************************************************)
(* Characters                                                              *)
(***************************************************************************)
Digits == <<"0", "1", "2", "3", "4", "5", "6", "7", "8", "9">>

HexLower == <<"0", "1", "2", "3", "4", "5", "6", "7", "8", "9", "a", "b", "c", "d", "e", "f">>

HexUpper == <<"0", "1", "2", "3", "4", "5", "6", "7", "8", "9", "A", "B", "C", "D", "E", "F">>

\* Printable ASCII, code points 32 .. 126 in order (the grave accent, which a
\* string literal cannot hold, is the atom "u0060").
Ascii == <<" ", "!", "\"", "#", "$", "%", "&", "'", "(", ")", "*", "+", ",", "-", ".", "/",
           "0", "1", "2", "3", "4", "5", "6", "7", "8", "9", ":", ";", "<", "=", ">", "?",
           "@", "A", "B", "C", "D", "E", "F", "G", "H", "I", "J", "K", "L", "M", "N", "O",
           "P", "Q", "R", "S", "T", "U", "V", "W", "X", "Y", "Z", "[", "\\", "]", "^", "_",
           "u0060", "a", "b", "c", "d", "e", "f", "g", "h", "i", "j", "k", "l", "m", "n", "o",
           "p", "q", "r", "s", "t", "u", "v", "w", "x", "y", "z", "{", "|", "}", "~">>

IndexOf(seq, c) == IF \E i \in 1..Len(seq) : seq[i] = c
                   THEN CHOOSE i \in 1..Len(seq) : seq[i] = c
                   ELSE 0

IsDigit(c) == IndexOf(Digits, c) > 0

DigitVal(c) == IndexOf(Digits, c) - 1

IsHex(c) == IndexOf(HexLower, c) > 0 \/ IndexOf(HexUpper, c) > 0

HexVal(c) == IF IndexOf(HexLower, c) > 0 THEN IndexOf(HexLower, c) - 1 ELSE IndexOf(HexUpper, c) - 1

IsSpace(c) == c \in {" ", "\t", "\n", "\r"}

\* lower(c) of strconv: ASCII letters to lower case.
Lower(c) == LET i == IndexOf(Ascii, c)
            IN IF i >= 34 /\ i <= 59 THEN Ascii[i + 32] ELSE c

At(s, i) == IF i >= 1 /\ i <= Len(s) THEN s[i] ELSE ""

Slice(s, i, j) == SubSeq(s, i, j - 1)

HasPrefixAt(s, i, p) == i + Len(p) - 1 <= Len(s) /\ \A k \in 1..Len(p) : s[i + k - 1] = p[k]

RECURSIVE Concat(_)
Concat(ss) == IF ss = <<>> THEN <<>> ELSE Head(ss) \o Concat(Tail(ss))

Contains(s, p) == \E i \in 1..(Len(s) - Len(p) + 1) : HasPrefixAt(s, i, p)

(***************************************************************************)
(* encoding/json: the scanner (checkValid) over one JSON text              *)
(***************************************************************************)
ControlAtoms == {"u00" \o HexLower[i] \o HexLower[j] : i \in 1..2, j \in 1..16}

IsControl(c) == c \in {"\n", "\t", "\r"} \/ c \in ControlAtoms

RECURSIVE SkipWS(_, _)
SkipWS(s, i) == IF i <= Len(s) /\ IsSpace(s[i]) THEN SkipWS(s, i + 1) ELSE i

RECURSIVE ScanDigits(_, _)
ScanDigits(s, i) == IF i <= Len(s) /\ IsDigit(s[i]) THEN ScanDigits(s, i + 1) ELSE i

\* The position after the string whose opening quote is at i - 1, or 0.
RECURSIVE ScanStr(_, _)
ScanStr(s, i) ==
    IF i > Len(s) THEN 0
    ELSE IF s[i] = "\"" THEN i + 1
    ELSE IF s[i] = "\\"
         THEN IF At(s, i + 1) \in {"\"", "\\", "/", "b", "f", "n", "r", "t"} THEN ScanStr(s, i + 2)
              ELSE IF At(s, i + 1) = "u" /\ i + 5 <= Len(s) /\ \A k \in 2..5 : IsHex(s[i + k])
                   THEN ScanStr(s, i + 6)
                   ELSE 0
    ELSE IF IsControl(s[i]) THEN 0
    ELSE ScanStr(s, i + 1)

\* The position after the JSON number that starts at i, or 0.
ScanNumber(s, i) ==
    LET i1 == IF At(s, i) = "-" THEN i + 1 ELSE i
        i2 == IF At(s, i1) = "0" THEN i1 + 1
              ELSE IF IsDigit(At(s, i1)) THEN ScanDigits(s, i1)
              ELSE 0
        i3 == IF i2 = 0 THEN 0
              ELSE IF At(s, i2) = "."
                   THEN IF IsDigit(At(s, i2 + 1)) THEN ScanDigits(s, i2 + 1) ELSE 0
                   ELSE i2
        e1 == IF At(s, i3 + 1) \in {"+", "-"} THEN i3 + 2 ELSE i3 + 1
    IN IF i3 = 0 THEN 0
       ELSE IF At(s, i3) \in {"e", "E"}
            THEN IF IsDigit(At(s, e1)) THEN ScanDigits(s, e1) ELSE 0
            ELSE i3

RECURSIVE ScanValue(_, _), ScanArrayRest(_, _), ScanObjectRest(_, _)
\* The position after the JSON value that starts at i, or 0.
ScanValue(s, i) ==
    LET c == At(s, i)
    IN IF c = "{" THEN (LET j == SkipWS(s, i + 1)
                        IN IF At(s, j) = "}" THEN j + 1 ELSE ScanObjectRest(s, j))
       ELSE IF c = "[" THEN (LET j == SkipWS(s, i + 1)
                             IN IF At(s, j) = "]" THEN j + 1 ELSE ScanArrayRest(s, j))
       ELSE IF c = "\"" THEN ScanStr(s, i + 1)
       ELSE IF c = "t" THEN (IF HasPrefixAt(s, i, <<"t", "r", "u", "e">>) THEN i + 4 ELSE 0)
       ELSE IF c = "f" THEN (IF HasPrefixAt(s, i, <<"f", "a", "l", "s", "e">>) THEN i + 5 ELSE 0)
       ELSE IF c = "n" THEN (IF HasPrefixAt(s, i, <<"n", "u", "l", "l">>) THEN i + 4 ELSE 0)
       ELSE IF c = "-" \/ IsDigit(c) THEN ScanNumber(s, i)
       ELSE 0

\* i is at the start of an element; the position after the closing bracket, or 0.
ScanArrayRest(s, i) ==
    LET e == ScanValue(s, i)
        j == SkipWS(s, e)
    IN IF e = 0 THEN 0
       ELSE IF At(s, j) = "," THEN ScanArrayRest(s, SkipWS(s, j + 1))
       ELSE IF At(s, j) = "]" THEN j + 1
       ELSE 0

\* i is at the start of a member's key; the position after the closing brace, or 0.
ScanObjectRest(s, i) ==
    LET k == IF At(s, i) = "\"" THEN ScanStr(s, i + 1) ELSE 0
        c == SkipWS(s, k)
        v == SkipWS(s, c + 1)
        e == ScanValue(s, v)
        j == SkipWS(s, e)
    IN IF k = 0 \/ At(s, c) # ":" \/ e = 0 THEN 0
       ELSE IF At(s, j) = "," THEN ScanObjectRest(s, SkipWS(s, j + 1))
       ELSE IF At(s, j) = "}" THEN j + 1
       ELSE 0

checkValid(s) ==
    LET e == ScanValue(s, SkipWS(s, 1))
    IN e # 0 /\ SkipWS(s, e) = Len(s) + 1

(***************************************************************************)
(* float64.  A finite value is sign, shortest decimal digits d (no leading *)
(* or trailing zero) and decimal point dp: 0.d1d2..dn * 10^dp, the form    *)
(* strconv itself parses into and formats from.  Exact for inputs of up to *)
(* 15 significant digits outside the subnormal range; hexadecimal          *)
(* mantissas and digit-separating underscores are not read.                *)
(***************************************************************************)
Float(neg, d, dp) == [cls |-> "fin", neg |-> neg, d |-> d, dp |-> dp]

FloatZero == Float(FALSE, <<>>, 0)

NaN == [cls |-> "nan", neg |-> FALSE, d |-> <<>>, dp |-> 0]

Inf(neg) == [cls |-> "inf", neg |-> neg, d |-> <<>>, dp |-> 0]

IsNaN(f) == f.cls = "nan"

IsInf(f, sign) == f.cls = "inf" /\ (f.neg <=> sign < 0)

RECURSIVE StripTrailingZeros(_)
StripTrailingZeros(d) ==
    IF d # <<>> /\ d[Len(d)] = 0 THEN StripTrailingZeros(SubSeq(d, 1, Len(d) - 1)) ELSE d

RECURSIVE NatDigits(_)
NatDigits(n) == IF n < 10 THEN <<n>> ELSE Append(NatDigits(n \div 10), n % 10)

\* float64(v) of an integer v (exact: |v| < 2^53 within the model's integers).
FloatOfInt(v) ==
    IF v = 0 THEN FloatZero
    ELSE LET a == IF v < 0 THEN -v ELSE v
         IN Float(v < 0, StripTrailingZeros(NatDigits(a)), Len(NatDigits(a)))

\* The largest finite float64 is 1.7976931348623157e308; from 1.797693134862315808e308 up
\* a decimal rounds to infinity.
OverflowDigits == <<1, 7, 9, 7, 6, 9, 3, 1, 3, 4, 8, 6, 2, 3, 1, 5, 8, 0, 8>>

RECURSIVE DigitsGeq(_, _)
DigitsGeq(d, e) ==
    IF e = <<>> THEN TRUE
    ELSE IF d = <<>> THEN \A i \in 1..Len(e) : e[i] = 0
    ELSE IF Head(d) # Head(e) THEN Head(d) > Head(e)
    ELSE DigitsGeq(Tail(d), Tail(e))

CommonPrefixLenIgnoreCase(s, prefix) ==
    LET n == IF Len(s) < Len(prefix) THEN Len(s) ELSE Len(prefix)
        Diff == {i \in 1..n : Lower(s[i]) # prefix[i]}
    IN IF Diff = {} THEN n ELSE (CHOOSE i \in Diff : \A j \in Diff : i <= j) - 1

\* strconv.special: [ok, f, n] with n the characters consumed.
special(s) ==
    LET signed == At(s, 1) \in {"+", "-"}
        rest == IF signed THEN Tail(s) ELSE s
        n0 == CommonPrefixLenIgnoreCase(rest, <<"i", "n", "f", "i", "n", "i", "t", "y">>)
        n == IF 3 < n0 /\ n0 < 8 THEN 3 ELSE n0
        nsign == IF signed THEN 1 ELSE 0
    IN IF s = <<>> THEN [ok |-> FALSE, f |-> FloatZero, n |-> 0]
       ELSE IF signed \/ Lower(s[1]) = "i"
            THEN IF n = 3 \/ n = 8 THEN [ok |-> TRUE, f |-> Inf(At(s, 1) = "-"), n |-> nsign + n]
                 ELSE [ok |-> FALSE, f |-> FloatZero, n |-> 0]
       ELSE IF Lower(s[1]) = "n" /\ CommonPrefixLenIgnoreCase(s, <<"n", "a", "n">>) = 3
            THEN [ok |-> TRUE, f |-> NaN, n |-> 3]
       ELSE [ok |-> FALSE, f |-> FloatZero, n |-> 0]

\* The mantissa loop of strconv.readFloat from position i on.
RECURSIVE readMantissa(_, _, _)
readMantissa(s, i, st) ==
    LET c == At(s, i)
    IN IF c = "."
       THEN IF st.sawdot THEN [st EXCEPT !.i = i]
            ELSE readMantissa(s, i + 1, [st EXCEPT !.sawdot = TRUE, !.dp = Len(st.d)])
       ELSE IF IsDigit(c)
            THEN IF c = "0" /\ st.d = <<>>
                 THEN readMantissa(s, i + 1, [st EXCEPT !.sawdigits = TRUE, !.dp = st.dp - 1])
                 ELSE readMantissa(s, i + 1, [st EXCEPT !.sawdigits = TRUE, !.d = Append(st.d, DigitVal(c))])
       ELSE [st EXCEPT !.i = i]

RECURSIVE readExponent(_, _, _)
readExponent(s, i, e) ==
    IF IsDigit(At(s, i))
    THEN readExponent(s, i + 1, IF e < 10000 THEN e * 10 + DigitVal(s[i]) ELSE e)
    ELSE [i |-> i, e |-> e]

\* strconv.readFloat (decimal): [ok, neg, d, dp, i] with i the next unread position.
readFloat(s) ==
    LET neg == At(s, 1) = "-"
        i0 == IF At(s, 1) \in {"+", "-"} THEN 2 ELSE 1
        m == readMantissa(s, i0, [sawdot |-> FALSE, sawdigits |-> FALSE, d |-> <<>>, dp |-> 0, i |-> i0])
        dp0 == IF m.sawdot THEN m.dp ELSE Len(m.d)
        hasExp == Lower(At(s, m.i)) = "e"
        esigned == At(s, m.i + 1) \in {"+", "-"}
        e0 == IF esigned THEN m.i + 2 ELSE m.i + 1
        ex == readExponent(s, e0, 0)
        fail == [ok |-> FALSE, neg |-> neg, d |-> <<>>, dp |-> 0, i |-> 0]
    IN IF s = <<>> \/ ~m.sawdigits THEN fail
       ELSE IF hasExp
            THEN IF ~IsDigit(At(s, e0)) THEN fail
                 ELSE [ok |-> TRUE, neg |-> neg, d |-> m.d,
                       dp |-> dp0 + (IF At(s, m.i + 1) = "-" THEN -ex.e ELSE ex.e), i |-> ex.i]
       ELSE [ok |-> TRUE, neg |-> neg, d |-> m.d, dp |-> dp0, i |-> m.i]

\* strconv.ParseFloat(s, 64): [ok, f]; ok is FALSE for a syntax error and for a
\* value out of range (ErrRange: the magnitude rounds to infinity).
ParseFloat(s) ==
    LET sp == special(s)
        r == readFloat(s)
        d == StripTrailingZeros(r.d)
    IN IF sp.ok THEN [ok |-> sp.n = Len(s), f |-> sp.f]
       ELSE IF ~r.ok \/ r.i # Len(s) + 1 THEN [ok |-> FALSE, f |-> FloatZero]
       ELSE IF d = <<>> THEN [ok |-> TRUE, f |-> Float(r.neg, <<>>, 0)]
       ELSE IF r.dp > 309 \/ (r.dp = 309 /\ DigitsGeq(d, OverflowDigits))
            THEN [ok |-> FALSE, f |-> Inf(r.neg)]
       ELSE IF r.dp < -323 THEN [ok |-> TRUE, f |-> Float(r.neg, <<>>, 0)]
       ELSE [ok |-> TRUE, f |-> Float(r.neg, d, r.dp)]

DigitChars(d) == [i \in 1..Len(d) |-> Digits[d[i] + 1]]

Zeros(n) == [i \in 1..n |-> "0"]

\* strconv.AppendFloat(f, 'f', -1, 64) of a finite value, without the sign.
fmtF(f) ==
    LET nd == Len(f.d)
        int == IF f.dp > 0
               THEN DigitChars(SubSeq(f.d, 1, IF nd < f.dp THEN nd ELSE f.dp))
                    \o Zeros(IF f.dp > nd THEN f.dp - nd ELSE 0)
               ELSE <<"0">>
        prec == IF nd - f.dp > 0 THEN nd - f.dp ELSE 0
        frac == [i \in 1..prec |-> IF f.dp + i >= 1 /\ f.dp + i <= nd THEN Digits[f.d[f.dp + i] + 1] ELSE "0"]
    IN IF prec > 0 THEN int \o <<".">> \o frac ELSE int

\* strconv.AppendFloat(f, 'e', -1, 64) of a finite value, without the sign, after
\* the encoder's clean-up of a one-digit exponent (e-07 becomes e-7).
fmtE(f) ==
    LET nd == Len(f.d)
        exp == IF nd = 0 THEN 0 ELSE f.dp - 1
        a == IF exp < 0 THEN -exp ELSE exp
        mant == IF nd = 0 THEN <<"0">>
                ELSE IF nd = 1 THEN DigitChars(f.d)
                ELSE <<Digits[f.d[1] + 1], ".">> \o DigitChars(Tail(f.d))
    IN mant \o <<"e", IF exp < 0 THEN "-" ELSE "+">> \o DigitChars(NatDigits(a))

\* encoding/json's floatEncoder: [ok, text]; a NaN or an infinity is an
\* UnsupportedValueError.
jsonMarshalFloat(f) ==
    IF f.cls # "fin"
    THEN [ok |-> FALSE,
          text |-> <<"json: unsupported value: ",
                     (IF f.cls = "nan" THEN "NaN" ELSE IF f.neg THEN "-Inf" ELSE "+Inf")>>]
    ELSE LET body == IF f.d # <<>> /\ (f.dp < -5 \/ f.dp > 21) THEN fmtE(f) ELSE fmtF(f)
         IN [ok |-> TRUE, text |-> (IF f.neg THEN <<"-">> ELSE <<>>) \o body]

(***************************************************************************)
(* encoding/json: strings                                                  *)
(***************************************************************************)
Hex2(c) == CHOOSE h \in (1..2) \X (1..16) : c = "u00" \o HexLower[h[1]] \o HexLower[h[2]]

\* The encoder's text for one character of a string (escapeHTML is on).
EscapeChar(c) ==
    IF c = "\"" THEN <<"\\", "\"">>
    ELSE IF c = "\\" THEN <<"\\", "\\">>
    ELSE IF c = "\n" THEN <<"\\", "n">>
    ELSE IF c = "\r" THEN <<"\\", "r">>
    ELSE IF c = "\t" THEN <<"\\", "t">>
    ELSE IF c = "<" THEN <<"\\", "u", "0", "0", "3", "c">>
    ELSE IF c = ">" THEN <<"\\", "u", "0", "0", "3", "e">>
    ELSE IF c = "&" THEN <<"\\", "u", "0", "0", "2", "6">>
    ELSE IF c = "xFF" THEN <<"\\", "u", "f", "f", "f", "d">>
    ELSE IF c = "u2028" THEN <<"\\", "u", "2", "0", "2", "8">>
    ELSE IF c = "u2029" THEN <<"\\", "u", "2", "0", "2", "9">>
    ELSE IF c \in ControlAtoms
         THEN LET h == Hex2(c)
              IN <<"\\", "u", "0", "0", HexLower[h[1]], HexLower[h[2]]>>
    ELSE <<c>>

\* json.Marshal of a string.
jsonMarshalString(s) ==
    <<"\"">> \o Concat([i \in 1..Len(s) |-> EscapeChar(s[i])]) \o <<"\"">>

\* The character a \uXXXX escape stands for.
CodePoint(h1, h2, h3, h4) ==
    LET cp == 4096 * HexVal(h1) + 256 * HexVal(h2) + 16 * HexVal(h3) + HexVal(h4)
    IN IF cp >= 32 /\ cp <= 126 THEN Ascii[cp - 31]
       ELSE IF cp = 9 THEN "\t"
       ELSE IF cp = 10 THEN "\n"
       ELSE IF cp = 13 THEN "\r"
       ELSE "u" \o HexLower[HexVal(h1) + 1] \o HexLower[HexVal(h2) + 1]
                \o HexLower[HexVal(h3) + 1] \o HexLower[HexVal(h4) + 1]

\* The content of the valid string literal whose opening quote is at i - 1.
RECURSIVE DecodeStr(_, _)
DecodeStr(s, i) ==
    LET c == s[i]
        n == At(s, i + 1)
    IN IF c = "\"" THEN <<>>
       ELSE IF c = "\\"
            THEN IF n = "u" THEN <<CodePoint(s[i + 2], s[i + 3], s[i + 4], s[i + 5])>> \o DecodeStr(s, i + 6)
                 ELSE <<(IF n = "b" THEN "u0008"
                         ELSE IF n = "f" THEN "u000c"
                         ELSE IF n = "n" THEN "\n"
                         ELSE IF n = "r" THEN "\r"
                         ELSE IF n = "t" THEN "\t"
                         ELSE n)>> \o DecodeStr(s, i + 2)
       ELSE <<(IF c = "xFF" THEN "ufffd" ELSE c)>> \o DecodeStr(s, i + 1)

SyntaxError == <<"json: syntax error">>

TypeError == <<"json: cannot unmarshal into Go value">>

\* json.Unmarshal(data, &ret) with ret a string: [ok, ret, err].  A JSON null
\* leaves ret empty and is no error.
jsonUnmarshalString(s) ==
    LET i == SkipWS(s, 1)
    IN IF ~checkValid(s) THEN [ok |-> FALSE, ret |-> <<>>, err |-> SyntaxError]
       ELSE IF s[i] = "\"" THEN [ok |-> TRUE, ret |-> DecodeStr(s, i + 1), err |-> <<>>]
       ELSE IF s[i] = "n" THEN [ok |-> TRUE, ret |-> <<>>, err |-> <<>>]
       ELSE [ok |-> FALSE, ret |-> <<>>, err |-> TypeError]

(***************************************************************************)
(* encoding/json: arrays and objects of json.RawMessage                    *)
(***************************************************************************)
\* The raw elements of the valid array whose first element starts at i.
RECURSIVE RawElements(_, _)
RawElements(s, i) ==
    LET e == ScanValue(s, i)
        j == SkipWS(s, e)
    IN IF At(s, j) = "," THEN <<Slice(s, i, e)>> \o RawElements(s, SkipWS(s, j + 1))
       ELSE <<Slice(s, i, e)>>

\* The members <<key, raw value>> of the valid object whose first key starts at i.
RECURSIVE RawMembers(_, _)
RawMembers(s, i) ==
    LET k == ScanStr(s, i + 1)
        v == SkipWS(s, SkipWS(s, k) + 1)
        e == ScanValue(s, v)
        j == SkipWS(s, e)
        m == <<DecodeStr(s, i + 1), Slice(s, v, e)>>
    IN IF At(s, j) = "," THEN <<m>> \o RawMembers(s, SkipWS(s, j + 1))
       ELSE <<m>>

\* json.Unmarshal(data, &s) with s a []json.RawMessage: [ok, s, err].
jsonUnmarshalRawSlice(s) ==
    LET i == SkipWS(s, 1)
        j == SkipWS(s, i + 1)
    IN IF ~checkValid(s) THEN [ok |-> FALSE, s |-> <<>>, err |-> SyntaxError]
       ELSE IF s[i] = "[" THEN [ok |-> TRUE, s |-> (IF s[j] = "]" THEN <<>> ELSE RawElements(s, j)), err |-> <<>>]
       ELSE IF s[i] = "n" THEN [ok |-> TRUE, s |-> <<>>, err |-> <<>>]
       ELSE [ok |-> FALSE, s |-> <<>>, err |-> TypeError]

\* The map a sequence of members builds: a repeated key keeps its last value.
MapOfMembers(ms) ==
    [k \in {ms[i][1] : i \in 1..Len(ms)} |->
        ms[CHOOSE i \in 1..Len(ms) : ms[i][1] = k /\ \A j \in (i + 1)..Len(ms) : ms[j][1] # k][2]]

\* json.Unmarshal(data, &m) with m a map[string]json.RawMessage: [ok, m, err].
jsonUnmarshalRawMap(s) ==
    LET i == SkipWS(s, 1)
        j == SkipWS(s, i + 1)
    IN IF ~checkValid(s) THEN [ok |-> FALSE, m |-> MapOfMembers(<<>>), err |-> SyntaxError]
       ELSE IF s[i] = "{" THEN [ok |-> TRUE, m |-> MapOfMembers(IF s[j] = "}" THEN <<>> ELSE RawMembers(s, j)), err |-> <<>>]
       ELSE IF s[i] = "n" THEN [ok |-> TRUE, m |-> MapOfMembers(<<>>), err |-> <<>>]
       ELSE [ok |-> FALSE, m |-> MapOfMembers(<<>>), err |-> TypeError]

(***************************************************************************)
(* The Value, Struct and ListValue types.  A record stands for the object  *)
(* a pointer refers to; isNil marks the nil pointer.  Kind is the name of  *)
(* the oneof wrapper the Kind interface holds, "nil" when it holds none.   *)
(***************************************************************************)
EmptyFields == [k \in {} |-> 0]

NilStruct == [isNil |-> TRUE, FieldsNil |-> TRUE, Fields |-> EmptyFields]

NilList == [isNil |-> TRUE, ValuesNil |-> TRUE, Values |-> <<>>]

\* &Struct{} and &ListValue{}.
ZeroStruct == [isNil |-> FALSE, FieldsNil |-> TRUE, Fields |-> EmptyFields]

ZeroList == [isNil |-> FALSE, ValuesNil |-> TRUE, Values |-> <<>>]

StructOf(fields) == [isNil |-> FALSE, FieldsNil |-> FALSE, Fields |-> fields]

ListOf(values) == [isNil |-> FALSE, ValuesNil |-> FALSE, Values |-> values]

\* &Value{}.
ZeroValue == [isNil |-> FALSE, Kind |-> "nil", NumberValue |-> FloatZero, StringValue |-> <<>>,
              BoolValue |-> FALSE, StructValue |-> NilStruct, ListValue |-> NilList]

\* The nil *Value.
NilValue == [ZeroValue EXCEPT !.isNil = TRUE]

NewNullValue == [ZeroValue EXCEPT !.Kind = "NullValue"]

NewBoolValue(v) == [ZeroValue EXCEPT !.Kind = "BoolValue", !.BoolValue = v]

NewNumberValue(v) == [ZeroValue EXCEPT !.Kind = "NumberValue", !.NumberValue = v]

NewStringValue(v) == [ZeroValue EXCEPT !.Kind = "StringValue", !.StringValue = v]

NewStructValue(v) == [ZeroValue EXCEPT !.Kind = "StructValue", !.StructValue = v]

NewListValue(v) == [ZeroValue EXCEPT !.Kind = "ListValue", !.ListValue = v]

(***************************************************************************)
(* MarshalJSON.  A result is [st, out]: st "ok" with the text, "err" with  *)
(* the error message, or "panic" (a nil pointer dereference).              *)
(***************************************************************************)
Ok(text) == [st |-> "ok", out |-> text]

Fail(msg) == [st |-> "err", out |-> msg]

Panic == [st |-> "panic", out |-> <<"runtime error: invalid memory address or nil pointer dereference">>]

CharRank(c) == IF c = "\t" THEN 9
               ELSE IF c = "\n" THEN 10
               ELSE IF c = "\r" THEN 13
               ELSE IF c \in ControlAtoms THEN 0
               ELSE IF IndexOf(Ascii, c) > 0 THEN IndexOf(Ascii, c) + 31
               ELSE 128

RECURSIVE KeyLess(_, _)
KeyLess(a, c) ==
    IF c = <<>> THEN FALSE
    ELSE IF a = <<>> THEN TRUE
    ELSE IF Head(a) # Head(c) THEN CharRank(Head(a)) < CharRank(Head(c))
    ELSE KeyLess(Tail(a), Tail(c))

\* The keys of a map in the order the encoder writes them.
RECURSIVE SortedKeys(_)
SortedKeys(S) ==
    IF S = {} THEN <<>>
    ELSE LET k == CHOOSE k \in S : \A o \in S \ {k} : ~KeyLess(o, k)
         IN <<k>> \o SortedKeys(S \ {k})

\* The encoder's result for a sequence of already encoded parts: a panic
\* unwinds from the first part that panics, else the first error is returned.
Join(parts, open, close) ==
    LET Bad(st) == {i \in 1..Len(parts) : parts[i].st = st}
        First(S) == CHOOSE i \in S : \A j \in S : i <= j
        Stop == Bad("panic") \cup Bad("err")
    IN IF Stop # {} THEN parts[First(Stop)]
       ELSE Ok(<<open>> \o Concat([i \in 1..Len(parts) |->
                    (IF i > 1 THEN <<",">> ELSE <<>>) \o parts[i].out]) \o <<close>>)

MarshalerError(r) ==
    IF r.st = "err" THEN Fail(<<"json: error calling MarshalJSON for type *types.Value: ">> \o r.out)
    ELSE r

RECURSIVE Value_MarshalJSON(_), Struct_MarshalJSON(_), ListValue_MarshalJSON(_), jsonMarshalValuePtr(_)

\* json.Marshal reaching a *Value element or member: null for the nil pointer,
\* else the element's MarshalJSON.
jsonMarshalValuePtr(v) ==
    IF v.isNil THEN Ok(<<"n", "u", "l", "l">>) ELSE MarshalerError(Value_MarshalJSON(v))

Value_MarshalJSON(v) ==
    IF v.Kind = "NumberValue"
    THEN LET r == jsonMarshalFloat(v.NumberValue)
         IN IF r.ok THEN Ok(r.text) ELSE Fail(r.text)
    ELSE IF v.Kind = "StringValue" THEN Ok(jsonMarshalString(v.StringValue))
    ELSE IF v.Kind = "BoolValue"
         THEN Ok(IF v.BoolValue THEN <<"t", "r", "u", "e">> ELSE <<"f", "a", "l", "s", "e">>)
    ELSE IF v.Kind = "StructValue"
         THEN IF v.StructValue.isNil THEN Panic ELSE Struct_MarshalJSON(v.StructValue)
    ELSE IF v.Kind = "ListValue"
         THEN IF v.ListValue.isNil THEN Panic ELSE ListValue_MarshalJSON(v.ListValue)
    ELSE Ok(<<"n", "u", "l", "l">>)

Struct_MarshalJSON(sv) ==
    IF sv.FieldsNil THEN Ok(<<"{", "}">>)
    ELSE LET ks == SortedKeys(DOMAIN sv.Fields)
             Member(k) == LET r == jsonMarshalValuePtr(sv.Fields[k])
                          IN IF r.st = "ok" THEN Ok(jsonMarshalString(k) \o <<":">> \o r.out) ELSE r
         IN Join([i \in 1..Len(ks) |-> Member(ks[i])], "{", "}")

ListValue_MarshalJSON(lv) ==
    IF lv.ValuesNil THEN Ok(<<"[", "]">>)
    ELSE Join([i \in 1..Len(lv.Values) |-> jsonMarshalValuePtr(lv.Values[i])], "[", "]")

(***************************************************************************)
(* UnmarshalJSON.  An outcome is [x, err]: the receiver after the call and *)
(* the error message (empty for nil).  A call has a set of outcomes: the   *)
(* order in which a Go map is ranged over is not fixed.                    *)
(***************************************************************************)
\* strconv.ParseBool: [ok, v].
ParseBool(s) ==
    IF s \in {<<"1">>, <<"t">>, <<"T">>, <<"T", "R", "U", "E">>, <<"t", "r", "u", "e">>, <<"T", "r", "u", "e">>}
    THEN [ok |-> TRUE, v |-> TRUE]
    ELSE IF s \in {<<"0">>, <<"f">>, <<"F">>, <<"F", "A", "L", "S", "E">>, <<"f", "a", "l", "s", "e">>,
                   <<"F", "a", "l", "s", "e">>}
         THEN [ok |-> TRUE, v |-> FALSE]
    ELSE [ok |-> FALSE, v |-> FALSE]

\* A variant of unquote that hands back the token as it stands, quotes kept.
unquote_raw(s) == [jsonUnmarshalString(s) EXCEPT !.ret = s]

unquote(s) == jsonUnmarshalString(s)

\* One character of fmt's %q.
QuoteChar(c) ==
    IF c = "\"" THEN <<"\\", "\"">>
    ELSE IF c = "\\" THEN <<"\\", "\\">>
    ELSE IF c = "\n" THEN <<"\\", "n">>
    ELSE IF c = "\r" THEN <<"\\", "r">>
    ELSE IF c = "\t" THEN <<"\\", "t">>
    ELSE IF c = "xFF" THEN <<"\\", "x", "f", "f">>
    ELSE IF c \in ControlAtoms
         THEN LET h == Hex2(c) IN <<"\\", "x", HexLower[h[1]], HexLower[h[2]]>>
    ELSE <<c>>

\* fmt's %q of a string.
GoQuote(s) == <<"\"">> \o Concat([i \in 1..Len(s) |-> QuoteChar(s[i])]) \o <<"\"">>

Outcome(v, e) == [x |-> v, err |-> e]

RECURSIVE Value_unmarshal(_, _), ListValue_unmarshal(_, _), Struct_unmarshal(_, _)
RECURSIVE ListValue_loop(_, _, _), Struct_loop(_, _, _)

\* A variant of Value.unmarshal that tries strconv.ParseBool before
\* strconv.ParseFloat.
Value_unmarshal_boolFirst(v, inputValue) ==
    IF inputValue = <<"n", "u", "l", "l">> THEN {Outcome(NewNullValue, <<>>)}
    ELSE IF ParseBool(inputValue).ok THEN {Outcome(NewBoolValue(ParseBool(inputValue).v), <<>>)}
    ELSE IF ParseFloat(inputValue).ok THEN {Outcome(NewNumberValue(ParseFloat(inputValue).f), <<>>)}
    ELSE IF unquote(inputValue).ok THEN {Outcome(NewStringValue(unquote(inputValue).ret), <<>>)}
    ELSE IF jsonUnmarshalRawSlice(inputValue).ok
         THEN {Outcome(NewListValue(o.x), o.err) : o \in ListValue_unmarshal(ZeroList, inputValue)}
    ELSE IF jsonUnmarshalRawMap(inputValue).ok
         THEN {Outcome(NewStructValue(o.x), o.err) : o \in Struct_unmarshal(ZeroStruct, inputValue)}
    ELSE {Outcome(v, <<"unrecognized type for Value ">> \o GoQuote(inputValue))}

Value_unmarshal(v, inputValue) ==
    IF inputValue = <<"n", "u", "l", "l">> THEN {Outcome(NewNullValue, <<>>)}
    ELSE IF ParseFloat(inputValue).ok THEN {Outcome(NewNumberValue(ParseFloat(inputValue).f), <<>>)}
    ELSE IF unquote(inputValue).ok THEN {Outcome(NewStringValue(unquote(inputValue).ret), <<>>)}
    ELSE IF ParseBool(inputValue).ok THEN {Outcome(NewBoolValue(ParseBool(inputValue).v), <<>>)}
    ELSE IF jsonUnmarshalRawSlice(inputValue).ok
         THEN {Outcome(NewListValue(o.x), o.err) : o \in ListValue_unmarshal(ZeroList, inputValue)}
    ELSE IF jsonUnmarshalRawMap(inputValue).ok
         THEN {Outcome(NewStructValue(o.x), o.err) : o \in Struct_unmarshal(ZeroStruct, inputValue)}
    ELSE {Outcome(v, <<"unrecognized type for Value ">> \o GoQuote(inputValue))}

\* The loop of ListValue.unmarshal from index i on, values being x.Values.
ListValue_loop(values, s, i) ==
    IF i > Len(s) THEN {Outcome(ListOf(values), <<>>)}
    ELSE UNION {IF o.err # <<>> THEN {Outcome(ListOf([values EXCEPT ![i] = o.x]), o.err)}
                ELSE ListValue_loop([values EXCEPT ![i] = o.x], s, i + 1)
                : o \in Value_unmarshal(ZeroValue, s[i])}

ListValue_unmarshal(lv, inputValue) ==
    LET r == jsonUnmarshalRawSlice(inputValue)
    IN IF ~r.ok THEN {Outcome(lv, <<"bad ListValue: ">> \o r.err)}
       ELSE ListValue_loop([i \in 1..Len(r.s) |-> NilValue], r.s, 1)

\* A variant of the loop of Struct.unmarshal that returns a member's error as
\* it is, without the key.
Struct_loop_unwrapped(fields, m, rest) ==
    IF rest = {} THEN {Outcome(StructOf(fields), <<>>)}
    ELSE UNION {UNION {IF o.err # <<>>
                       THEN {Outcome(StructOf(fields), o.err)}
                       ELSE Struct_loop([j \in DOMAIN fields \cup {k} |-> IF j = k THEN o.x ELSE fields[j]],
                                        m, rest \ {k})
                       : o \in Value_unmarshal(ZeroValue, m[k])}
                : k \in rest}

\* The loop of Struct.unmarshal with the keys in rest still to come, in any order.
Struct_loop(fields, m, rest) ==
    IF rest = {} THEN {Outcome(StructOf(fields), <<>>)}
    ELSE UNION {UNION {IF o.err # <<>>
                       THEN {Outcome(StructOf(fields),
                                     <<"bad value in StructValue for key ">> \o GoQuote(k) \o <<":", " ">> \o o.err)}
                       ELSE Struct_loop([j \in DOMAIN fields \cup {k} |-> IF j = k THEN o.x ELSE fields[j]],
                                        m, rest \ {k})
                       : o \in Value_unmarshal(ZeroValue, m[k])}
                : k \in rest}

Struct_unmarshal(sv, inputValue) ==
    LET r == jsonUnmarshalRawMap(inputValue)
    IN IF ~r.ok THEN {Outcome(sv, <<"bad StructValue: ">> \o r.err)}
       ELSE Struct_loop(EmptyFields, r.m, DOMAIN r.m)

(***************************************************************************)
(* Native Go values (interface{}).  type is the dynamic type as %T prints  *)
(* it; isNil marks a nil slice or map.                                     *)
(***************************************************************************)
NatNil == [type |-> "nil", isNil |-> TRUE, b |-> FALSE, i |-> 0, f |-> FloatZero, s |-> <<>>,
           bytes |-> <<>>, elems |-> <<>>, m |-> EmptyFields]

NatBool(v) == [NatNil EXCEPT !.type = "bool", !.isNil = FALSE, !.b = v]

NatInt(type, v) == [NatNil EXCEPT !.type = type, !.isNil = FALSE, !.i = v]

NatFloat(type, v) == [NatNil EXCEPT !.type = type, !.isNil = FALSE, !.f = v]

NatString(v) == [NatNil EXCEPT !.type = "string", !.isNil = FALSE, !.s = v]

NatBytes(v) == [NatNil EXCEPT !.type = "[]uint8", !.isNil = FALSE, !.bytes = v]

NatSlice(v) == [NatNil EXCEPT !.type = "[]interface {}", !.isNil = FALSE, !.elems = v]

NatMap(v) == [NatNil EXCEPT !.type = "map[string]interface {}", !.isNil = FALSE, !.m = v]

NilNatSlice == [NatNil EXCEPT !.type = "[]interface {}"]

NilNatMap == [NatNil EXCEPT !.type = "map[string]interface {}"]

\* A value of a type NewValue's switch has no case for.
NatOther(type) == [NatNil EXCEPT !.type = type, !.isNil = FALSE]

IntTypes == {"int", "int32", "int64", "uint", "uint32", "uint64"}

FloatTypes == {"float32", "float64"}

ValidString(s) == \A i \in 1..Len(s) : s[i] # "xFF"

B64Alphabet == SubSeq(Ascii, 34, 59) \o SubSeq(Ascii, 66, 91) \o Digits \o <<"+", "/">>

\* base64.StdEncoding.EncodeToString.
RECURSIVE EncodeToString(_)
EncodeToString(src) ==
    IF src = <<>> THEN <<>>
    ELSE IF Len(src) = 1
         THEN <<B64Alphabet[(src[1] \div 4) + 1], B64Alphabet[(src[1] % 4) * 16 + 1], "=", "=">>
    ELSE IF Len(src) = 2
         THEN <<B64Alphabet[(src[1] \div 4) + 1], B64Alphabet[(src[1] % 4) * 16 + (src[2] \div 16) + 1],
                B64Alphabet[(src[2] % 16) * 4 + 1], "=">>
    ELSE <<B64Alphabet[(src[1] \div 4) + 1], B64Alphabet[(src[1] % 4) * 16 + (src[2] \div 16) + 1],
           B64Alphabet[(src[2] % 16) * 4 + (src[3] \div 64) + 1], B64Alphabet[(src[3] % 64) + 1]>>
         \o EncodeToString(SubSeq(src, 4, Len(src)))

(***************************************************************************)
(* NewValue, NewStruct, NewList.  A result is [ok, v, err]; a call has a   *)
(* set of results, since NewStruct ranges over a Go map and returns the    *)
(* first error it meets.                                                   *)
(***************************************************************************)
Made(v) == [ok |-> TRUE, v |-> v, err |-> <<>>]

Refused(e) == [ok |-> FALSE, v |-> NilValue, err |-> e]

RECURSIVE NewValue(_), NewStruct(_), NewList(_)

\* A variant of NewValue whose switch has no case for uint64.
NewValue_noUint64(v) ==
    IF v.type = "nil" THEN {Made(NewNullValue)}
    ELSE IF v.type = "bool" THEN {Made(NewBoolValue(v.b))}
    ELSE IF v.type \in IntTypes \ {"uint64"} THEN {Made(NewNumberValue(FloatOfInt(v.i)))}
    ELSE IF v.type \in FloatTypes THEN {Made(NewNumberValue(v.f))}
    ELSE IF v.type = "string"
         THEN IF ~ValidString(v.s) THEN {Refused(<<"invalid UTF-8 in string: ">> \o GoQuote(v.s))}
              ELSE {Made(NewStringValue(v.s))}
    ELSE IF v.type = "[]uint8" THEN {Made(NewStringValue(EncodeToString(v.bytes)))}
    ELSE IF v.type = "map[string]interface {}"
         THEN {IF r.ok THEN Made(NewStructValue(r.v)) ELSE Refused(r.err) : r \in NewStruct(v.m)}
    ELSE IF v.type = "[]interface {}"
         THEN {IF r.ok THEN Made(NewListValue(r.v)) ELSE Refused(r.err) : r \in NewList(v.elems)}
    ELSE {Refused(<<"invalid type: ", v.type>>)}

NewValue(v) ==
    IF v.type = "nil" THEN {Made(NewNullValue)}
    ELSE IF v.type = "bool" THEN {Made(NewBoolValue(v.b))}
    ELSE IF v.type \in IntTypes THEN {Made(NewNumberValue(FloatOfInt(v.i)))}
    ELSE IF v.type \in FloatTypes THEN {Made(NewNumberValue(v.f))}
    ELSE IF v.type = "string"
         THEN IF ~ValidString(v.s) THEN {Refused(<<"invalid UTF-8 in string: ">> \o GoQuote(v.s))}
              ELSE {Made(NewStringValue(v.s))}
    ELSE IF v.type = "[]uint8" THEN {Made(NewStringValue(EncodeToString(v.bytes)))}
    ELSE IF v.type = "map[string]interface {}"
         THEN {IF r.ok THEN Made(NewStructValue(r.v)) ELSE Refused(r.err) : r \in NewStruct(v.m)}
    ELSE IF v.type = "[]interface {}"
         THEN {IF r.ok THEN Made(NewListValue(r.v)) ELSE Refused(r.err) : r \in NewList(v.elems)}
    ELSE {Refused(<<"invalid type: ", v.type>>)}

\* The results are [ok, v, err] with v a Struct.
NewStruct(m) ==
    LET Res(k) == IF ~ValidString(k) THEN {Refused(<<"invalid UTF-8 in string: ">> \o GoQuote(k))}
                  ELSE NewValue(m[k])
        Errs == UNION {{r \in Res(k) : ~r.ok} : k \in DOMAIN m}
    IN IF Errs # {} THEN {[ok |-> FALSE, v |-> NilStruct, err |-> r.err] : r \in Errs}
       ELSE {[ok |-> TRUE, v |-> StructOf([k \in DOMAIN m |-> (CHOOSE r \in Res(k) : TRUE).v]), err |-> <<>>]}

\* The results are [ok, v, err] with v a ListValue.
NewList(elems) ==
    LET Res(i) == NewValue(elems[i])
        Bad == {i \in 1..Len(elems) : \E r \in Res(i) : ~r.ok}
        first == CHOOSE i \in Bad : \A j \in Bad : i <= j
    IN IF Bad # {} THEN {[ok |-> FALSE, v |-> NilList, err |-> r.err] : r \in Res(first)}
       ELSE {[ok |-> TRUE, v |-> ListOf([i \in 1..Len(elems) |-> (CHOOSE r \in Res(i) : TRUE).v]), err |-> <<>>]}

(***************************************************************************)
(* AsInterface, AsMap, AsSlice                                             *)
(***************************************************************************)
RECURSIVE AsInterface(_), AsMap(_), AsSlice(_)

\* A variant of AsInterface that returns every Number as a float64, the
\* non-finite ones too.
AsInterface_floatOnly(v) ==
    IF v.isNil THEN NatNil
    ELSE IF v.Kind = "NumberValue" THEN NatFloat("float64", v.NumberValue)
    ELSE IF v.Kind = "StringValue" THEN NatString(v.StringValue)
    ELSE IF v.Kind = "BoolValue" THEN NatBool(v.BoolValue)
    ELSE IF v.Kind = "StructValue" THEN AsMap(v.StructValue)
    ELSE IF v.Kind = "ListValue" THEN AsSlice(v.ListValue)
    ELSE NatNil

AsInterface(v) ==
    IF v.isNil THEN NatNil
    ELSE IF v.Kind = "NumberValue"
         THEN IF IsNaN(v.NumberValue) THEN NatString(<<"N", "a", "N">>)
              ELSE IF IsInf(v.NumberValue, 1) THEN NatString(<<"I", "n", "f", "i", "n", "i", "t", "y">>)
              ELSE IF IsInf(v.NumberValue, -1) THEN NatString(<<"-", "I", "n", "f", "i", "n", "i", "t", "y">>)
              ELSE NatFloat("float64", v.NumberValue)
    ELSE IF v.Kind = "StringValue" THEN NatString(v.StringValue)
    ELSE IF v.Kind = "BoolValue" THEN NatBool(v.BoolValue)
    ELSE IF v.Kind = "StructValue" THEN AsMap(v.StructValue)
    ELSE IF v.Kind = "ListValue" THEN AsSlice(v.ListValue)
    ELSE NatNil

\* x.GetFields() is the empty map for the nil *Struct.
AsMap(sv) == NatMap([k \in DOMAIN sv.Fields |-> AsInterface(sv.Fields[k])])

AsSlice(lv) == NatSlice([i \in 1..Len(lv.Values) |-> AsInterface(lv.Values[i])])

\* json.Marshal of a native value, as [st, out].
RECURSIVE jsonMarshal(_)
jsonMarshal(v) ==
    IF v.type = "nil" THEN Ok(<<"n", "u", "l", "l">>)
    ELSE IF v.type = "bool" THEN Ok(IF v.b THEN <<"t", "r", "u", "e">> ELSE <<"f", "a", "l", "s", "e">>)
    ELSE IF v.type \in FloatTypes
         THEN LET r == jsonMarshalFloat(v.f) IN IF r.ok THEN Ok(r.text) ELSE Fail(r.text)
    ELSE IF v.type = "string" THEN Ok(jsonMarshalString(v.s))
    ELSE IF v.type = "map[string]interface {}"
         THEN IF v.isNil THEN Ok(<<"n", "u", "l", "l">>)
              ELSE LET ks == SortedKeys(DOMAIN v.m)
                       Member(k) == LET r == jsonMarshal(v.m[k])
                                    IN IF r.st = "ok" THEN Ok(jsonMarshalString(k) \o <<":">> \o r.out) ELSE r
                   IN Join([i \in 1..Len(ks) |-> Member(ks[i])], "{", "}")
    ELSE IF v.type = "[]interface {}"
         THEN IF v.isNil THEN Ok(<<"n", "u", "l", "l">>)
              ELSE Join([i \in 1..Len(v.elems) |-> jsonMarshal(v.elems[i])], "[", "]")
    ELSE Fail(<<"json: unsupported type: ", v.type>>)

(***************************************************************************)
(* Inputs.  A tree has a number of nodes: a scalar or an empty container   *)
(* is one node, a container one more than its elements together.           *)
(***************************************************************************)
MaxNodes == 3

MaxTokenLen == 3

Keys == {<<"a">>, <<"k", "<">>}

\* The maps that give the elements of forest f, in order, to as many keys.
MapsOf(f) ==
    {[k \in K |-> f[CHOOSE i \in 1..Len(f) : SortedKeys(K)[i] = k]]
        : K \in {K \in SUBSET Keys : Cardinality(K) = Len(f)}}

\* The Values of exactly n nodes over the given leaves, and the sequences of
\* Values of n nodes together.
RECURSIVE ValueTrees(_, _), ValueForests(_, _)
ValueTrees(leaves, n) ==
    IF n = 1 THEN leaves
    ELSE {NewListValue(ListOf(f)) : f \in ValueForests(leaves, n - 1)}
         \cup UNION {{NewStructValue(StructOf(m)) : m \in MapsOf(f)} : f \in ValueForests(leaves, n - 1)}

ValueForests(leaves, n) ==
    IF n = 0 THEN {<<>>}
    ELSE UNION {{<<t>> \o f : t \in ValueTrees(leaves, k), f \in ValueForests(leaves, n - k)} : k \in 1..n}

ValuesUpTo(leaves, n) == UNION {ValueTrees(leaves, k) : k \in 1..n}

RECURSIVE NativeTrees(_, _), NativeForests(_, _)
NativeTrees(leaves, n) ==
    IF n = 1 THEN leaves
    ELSE {NatSlice(f) : f \in NativeForests(leaves, n - 1)}
         \cup UNION {{NatMap(m) : m \in MapsOf(f)} : f \in NativeForests(leaves, n - 1)}

NativeForests(leaves, n) ==
    IF n = 0 THEN {<<>>}
    ELSE UNION {{<<t>> \o f : t \in NativeTrees(leaves, k), f \in NativeForests(leaves, n - k)} : k \in 1..n}

NativesUpTo(leaves, n) == UNION {NativeTrees(leaves, k) : k \in 1..n}

\* All texts of at most n characters of the alphabet.
RECURSIVE Texts(_, _)
Texts(alphabet, n) ==
    IF n = 0 THEN {<<>>}
    ELSE Texts(alphabet, n - 1) \cup {Append(t, c) : t \in Texts(alphabet, n - 1), c \in alphabet}

\* Values the codec is meant to carry: in containers, and on their own.
CodecLeaves ==
    {NewNullValue, NewBoolValue(FALSE), NewNumberValue(Float(TRUE, <<1, 5>>, 1)),
     NewNumberValue(Float(FALSE, <<1>>, 22)), NewStringValue(<<"t", "r", "u", "e">>),
     NewStringValue(<<"]", ",", "\"", "<">>), NewListValue(ZeroList), NewStructValue(StructOf(EmptyFields))}

CodecRoots ==
    {NewBoolValue(TRUE), NewNumberValue(FloatOfInt(1)), NewNumberValue(FloatOfInt(-1200)),
     NewNumberValue(Float(TRUE, <<>>, 0)), NewNumberValue(Float(FALSE, <<1, 2>>, -6)),
     NewNumberValue(Float(FALSE, <<1>>, -5)), NewStringValue(<<>>), NewStringValue(<<"x">>),
     NewStringValue(<<"1">>), NewStringValue(<<"n", "u", "l", "l">>),
     NewStringValue(<<"9", "2", "2", "3", "3", "7", "2", "0", "3", "6", "8", "5", "4", "7", "7", "5", "8", "0", "7">>),
     NewStringValue(<<"u0000", "4", "E", "1", "6", "u0000", "7", "5", "4", "C">>),
     NewStringValue(<<"a", "/", "b", "\\", "\n", "\t", "&", ">", "u4e16", "u2028">>),
     NewListValue(ListOf(<<>>)), NewStructValue(ZeroStruct),
     NewNumberValue(NaN), NewNumberValue(Inf(FALSE)), NewStringValue(<<"xFF">>)}

\* Values with unset parts and non-finite numbers.
EncodeLeaves ==
    {ZeroValue, NilValue, NewListValue(NilList), NewStructValue(NilStruct), NewListValue(ZeroList),
     NewStructValue(ZeroStruct), NewNumberValue(NaN), NewNumberValue(Inf(FALSE)), NewNumberValue(Inf(TRUE)),
     NewNumberValue(FloatOfInt(3)), NewStringValue(<<"N", "a", "N">>), NewStringValue(<<"x", "<">>)}

UintTypes == {"uint", "uint32", "uint64"}

NativeLeaves ==
    {NatNil, NatBool(TRUE), NatInt("int", -7), NatInt("uint64", 1200), NatFloat("float32", Float(FALSE, <<1, 5>>, 1)),
     NatFloat("float64", NaN), NatString(<<"x">>), NatBytes(<<77, 97>>), NilNatSlice, NatInt("int8", 5)}

NativeRoots ==
    {NatBool(FALSE), NilNatMap, NatBytes(<<>>), NatBytes(<<255, 254, 253, 0>>), NatString(<<>>),
     NatString(<<"xFF">>), NatString(<<"N", "a", "N">>), NatOther("struct {}"), NatOther("[]string"),
     NatFloat("float64", Float(TRUE, <<1, 5>>, 1)), NatFloat("float64", Inf(FALSE)), NatFloat("float64", Inf(TRUE)),
     NatFloat("float32", Inf(FALSE)), NatFloat("float64", Float(FALSE, <<1>>, 22)),
     NatMap([k \in {<<"xFF">>} |-> NatNil])}
    \cup {NatInt(t, v) : t \in IntTypes \ UintTypes, v \in {-2147483647, -7, 0, 5, 2147483647}}
    \cup {NatInt(t, v) : t \in UintTypes, v \in {0, 5, 2147483647}}
    \cup {NatInt(t, 5) : t \in {"int8", "int16", "uint8", "uint16"}}

TokenAlphabet == {"\"", "t", "T", "1", "e", "-", "[", "]", " "}

\* JSON texts handed to UnmarshalJSON beside the short texts over TokenAlphabet.
SampleTokens ==
    {<<"n", "u", "l", "l">>, <<"t", "r", "u", "e">>, <<"f", "a", "l", "s", "e">>,
     <<"T", "R", "U", "E">>, <<"T", "r", "u", "e">>, <<"f">>, <<"F">>, <<"F", "A", "L", "S", "E">>,
     <<"F", "a", "l", "s", "e">>, <<"t", "R", "U", "E">>,
     <<"\"", "t", "r", "u", "e", "\"">>, <<"\"", "f", "a", "l", "s", "e", "\"">>,
     <<"\"", "9", "2", "2", "3", "3", "7", "2", "0", "3", "6", "8", "5", "4", "7", "7", "5", "8", "0", "7", "\"">>,
     <<"\"", "\\", "u", "0", "0", "3", "C", "\\", "n", "\\", "/", "\"">>,
     <<"\"", "\\", "u", "0", "0", "3", "\"">>,
     <<"1", ".", "5", "e", "3">>, <<"1", "e", "9", "9", "9">>, <<"N", "a", "N">>, <<"I", "n", "f">>, <<".", "5">>,
     <<"{", "}">>, <<"{", "\"", "a", "\"", ":", " ", "}">>, <<"{", "\"", "a", "\"", ":", " ", "1", "}">>,
     <<"{", "\"", "a", "\"", ":", "1", "e", "9", "9", "9", "}">>,
     <<"{", "\"", "a", "\"", ":", "[", "1", "e", "9", "9", "9", "]", "}">>,
     <<"{", "\"", "a", "\"", ":", "1", ",", "\"", "b", "\"", ":", "1", "e", "9", "9", "9", "}">>,
     <<"{", "\"", "a", "\"", ":", "1", "e", "9", "9", "9", ",", "\"", "b", "\"", ":", "2", "e", "9", "9", "9", "}">>,
     <<"{", "\"", "a", "\"", ":", "1", ",", "\"", "a", "\"", ":", "t", "r", "u", "e", "}">>,
     <<"{", "\"", "a", "\"", ":", "{", "\"", "b", "\"", ":", "1", "e", "9", "9", "9", "}", "}">>,
     <<"{", "\"", "a", "\"", ":", "t", "}">>,
     <<"[", "1", "e", "9", "9", "9", "]">>, <<"[", "1", ",", "1", "e", "9", "9", "9", "]">>,
     <<"[", "1", ",", "1", "e", "9", "9", "9", ",", "2", "]">>,
     <<"[", "\"", "x", "\"", ",", "n", "u", "l", "l", ",", "3", ",", "t", "r", "u", "e", "]">>,
     <<"[", "[", "1", "e", "9", "9", "9", "]", "]">>, <<"[", "1", ",", "]">>, <<"[", "1", ",", "T", "]">>}
    \cup {Value_MarshalJSON(v).out : v \in ValuesUpTo(CodecLeaves, 2)}

Tokens == SampleTokens \cup Texts(TokenAlphabet, MaxTokenLen)

\* The receivers of an UnmarshalJSON: fresh ones, and ones that hold a value.
Receivers ==
    {ZeroValue, NewBoolValue(TRUE), NewListValue(ZeroList), NewListValue(ListOf(<<NewBoolValue(TRUE)>>)),
     NewStructValue(ZeroStruct), NewStructValue(StructOf([k \in {<<"a">>} |-> NewBoolValue(TRUE)]))}

(***************************************************************************)
(* The calls                                                               *)
(***************************************************************************)
NoText == [st |-> "none", out |-> <<>>]

Returned(r) ==
    /\ res' = r.st
    /\ b' = IF r.st = "ok" THEN r.out ELSE <<>>
    /\ err' = IF r.st = "ok" THEN <<>> ELSE r.out

\* x.MarshalJSON() of a Value x.
ValueMarshalJSON ==
    /\ op \in {"init", "json.Marshal"}
    /\ Returned(Value_MarshalJSON(x))
    /\ op' = "Value.MarshalJSON"
    /\ UNCHANGED <<x, x0, nat, nat0, txt>>

\* x.MarshalJSON() of the Struct a StructValue holds.
StructMarshalJSON ==
    /\ op = "init"
    /\ x.Kind = "StructValue" /\ ~x.StructValue.isNil
    /\ Returned(Struct_MarshalJSON(x.StructValue))
    /\ op' = "Struct.MarshalJSON"
    /\ UNCHANGED <<x, x0, nat, nat0, txt>>

\* x.MarshalJSON() of the ListValue a ListValue variant holds.
ListValueMarshalJSON ==
    /\ op = "init"
    /\ x.Kind = "ListValue" /\ ~x.ListValue.isNil
    /\ Returned(ListValue_MarshalJSON(x.ListValue))
    /\ op' = "ListValue.MarshalJSON"
    /\ UNCHANGED <<x, x0, nat, nat0, txt>>

Decoded(o) ==
    /\ err' = o.err
    /\ res' = IF o.err = <<>> THEN "ok" ELSE "err"

\* x.UnmarshalJSON(b) with the receiver x.
ValueUnmarshalJSON ==
    /\ op = "init"
    /\ \E o \in Value_unmarshal(x, b) : x' = o.x /\ Decoded(o)
    /\ op' = "Value.UnmarshalJSON"
    /\ UNCHANGED <<x0, b, nat, nat0, txt>>

\* The text a MarshalJSON produced, decoded into a fresh Value.
ValueUnmarshalFresh ==
    /\ op = "Value.MarshalJSON" /\ res = "ok"
    /\ \E o \in Value_unmarshal(ZeroValue, b) : x' = o.x /\ Decoded(o)
    /\ op' = "Value.UnmarshalJSON"
    /\ UNCHANGED <<x0, b, nat, nat0, txt>>

\* lv.UnmarshalJSON(b) with the receiver the ListValue that x holds.
ListValueUnmarshalJSON ==
    /\ op = "init"
    /\ x.Kind = "ListValue" /\ ~x.ListValue.isNil
    /\ \E o \in ListValue_unmarshal(x.ListValue, b) : x' = [x EXCEPT !.ListValue = o.x] /\ Decoded(o)
    /\ op' = "ListValue.UnmarshalJSON"
    /\ UNCHANGED <<x0, b, nat, nat0, txt>>

\* sv.UnmarshalJSON(b) with the receiver the Struct that x holds.
StructUnmarshalJSON ==
    /\ op = "init"
    /\ x.Kind = "StructValue" /\ ~x.StructValue.isNil
    /\ \E o \in Struct_unmarshal(x.StructValue, b) : x' = [x EXCEPT !.StructValue = o.x] /\ Decoded(o)
    /\ op' = "Struct.UnmarshalJSON"
    /\ UNCHANGED <<x0, b, nat, nat0, txt>>

\* NewValue(nat).
NewValueCall ==
    /\ op = "init"
    /\ \E r \in NewValue(nat) : x' = r.v /\ err' = r.err /\ res' = IF r.ok THEN "ok" ELSE "err"
    /\ op' = "NewValue"
    /\ UNCHANGED <<x0, b, nat, nat0, txt>>

\* x.AsInterface() of the Value NewValue returned.
AsInterfaceCall ==
    /\ op = "NewValue" /\ res = "ok"
    /\ nat' = AsInterface(x)
    /\ op' = "Value.AsInterface"
    /\ UNCHANGED <<x, x0, b, nat0, res, err, txt>>

\* x.AsInterface() of a Value x.
ValueAsInterface ==
    /\ op = "init"
    /\ nat' = AsInterface(x)
    /\ op' = "Value.AsInterface"
    /\ UNCHANGED <<x, x0, b, nat0, res, err, txt>>

\* json.Marshal(nat) of the native value AsInterface returned.
JsonMarshalNative ==
    /\ op = "Value.AsInterface"
    /\ txt' = jsonMarshal(nat)
    /\ op' = "json.Marshal"
    /\ UNCHANGED <<x, x0, b, nat, nat0, res, err>>

Quiet == /\ op = "init" /\ b = <<>> /\ nat = NatNil /\ nat0 = NatNil
         /\ res = "ok" /\ err = <<>> /\ txt = NoText

\* Encode a Value, decode the text into a fresh Value.
InitCodec ==
    /\ x \in CodecRoots \cup ValuesUpTo(CodecLeaves, MaxNodes)
    /\ x0 = x
    /\ Quiet

NextCodec == ValueMarshalJSON \/ ValueUnmarshalFresh

SpecCodec == InitCodec /\ [][NextCodec]_vars

\* Encode a Value with unset parts or non-finite numbers, directly and by way
\* of AsInterface and json.Marshal.
InitEncode ==
    /\ x \in ValuesUpTo(EncodeLeaves, MaxNodes) \ {NilValue}
    /\ x0 = x
    /\ Quiet

NextEncode ==
    \/ ValueMarshalJSON
    \/ StructMarshalJSON
    \/ ListValueMarshalJSON
    \/ ValueAsInterface
    \/ JsonMarshalNative

SpecEncode == InitEncode /\ [][NextEncode]_vars

\* Decode a text into a Value.
InitDecode ==
    /\ op = "init"
    /\ x \in Receivers
    /\ x0 = x
    /\ b \in Tokens
    /\ nat = NatNil /\ nat0 = NatNil /\ res = "ok" /\ err = <<>> /\ txt = NoText

NextDecode == ValueUnmarshalJSON

SpecDecode == InitDecode /\ [][NextDecode]_vars

\* Decode a text into a ListValue.
InitDecodeList == InitDecode /\ x.Kind = "ListValue"

NextDecodeList == ListValueUnmarshalJSON

SpecDecodeList == InitDecodeList /\ [][NextDecodeList]_vars

\* Decode a text into a Struct.
InitDecodeStruct == InitDecode /\ x.Kind = "StructValue"

NextDecodeStruct == StructUnmarshalJSON

SpecDecodeStruct == InitDecodeStruct /\ [][NextDecodeStruct]_vars

\* Convert a native value to a Value and back.
InitNative ==
    /\ op = "init"
    /\ nat \in NativeRoots \cup NativesUpTo(NativeLeaves, MaxNodes)
    /\ nat0 = nat
    /\ x = ZeroValue /\ x0 = ZeroValue
    /\ b = <<>> /\ res = "ok" /\ err = <<>> /\ txt = NoText

NextNative == NewValueCall \/ AsInterfaceCall

SpecNative == InitNative /\ [][NextNative]_vars

(***************************************************************************)
(* Properties                                                              *)
(***************************************************************************)
\* A Value tree built only from Null, Bool, finite Numbers, valid-UTF-8
\* Strings, Lists and Maps.
RECURSIVE WellFormed(_)
WellFormed(v) ==
    /\ ~v.isNil
    /\ v.Kind # "nil"
    /\ v.Kind = "NumberValue" => v.NumberValue.cls = "fin"
    /\ v.Kind = "StringValue" => ValidString(v.StringValue)
    /\ v.Kind = "ListValue" =>
           /\ ~v.ListValue.isNil
           /\ \A i \in 1..Len(v.ListValue.Values) : WellFormed(v.ListValue.Values[i])
    /\ v.Kind = "StructValue" =>
           /\ ~v.StructValue.isNil
           /\ \A k \in DOMAIN v.StructValue.Fields : ValidString(k) /\ WellFormed(v.StructValue.Fields[k])

\* The same variant at every node, the same scalar payloads, the same
\* element order and the same key set.
RECURSIVE DeepEqual(_, _)
DeepEqual(v, w) ==
    /\ v.isNil = w.isNil
    /\ v.Kind = w.Kind
    /\ v.NumberValue = w.NumberValue
    /\ v.StringValue = w.StringValue
    /\ v.BoolValue = w.BoolValue
    /\ v.Kind = "ListValue" =>
           /\ v.ListValue.isNil = w.ListValue.isNil
           /\ Len(v.ListValue.Values) = Len(w.ListValue.Values)
           /\ \A i \in 1..Len(v.ListValue.Values) : DeepEqual(v.ListValue.Values[i], w.ListValue.Values[i])
    /\ v.Kind = "StructValue" =>
           /\ v.StructValue.isNil = w.StructValue.isNil
           /\ DOMAIN v.StructValue.Fields = DOMAIN w.StructValue.Fields
           /\ \A k \in DOMAIN v.StructValue.Fields : DeepEqual(v.StructValue.Fields[k], w.StructValue.Fields[k])

\* C1: for a Value tree built only from Null, Bool, finite Numbers,
\* valid-UTF-8 Strings, Lists and Maps, Value.MarshalJSON succeeds, and
\* Value.UnmarshalJSON of the text it produced into a fresh Value succeeds and
\* yields a tree deep-equal to the one encoded.
C1_RoundTrip ==
    WellFormed(x0) =>
        /\ op = "Value.MarshalJSON" => res = "ok" /\ x = x0
        /\ op = "Value.UnmarshalJSON" => err = <<>> /\ DeepEqual(x, x0)

\* A Map of a Number and a String with characters the encoder escapes has made
\* the round trip.
C1_Witness ==
    /\ op = "Value.UnmarshalJSON" /\ err = <<>>
    /\ x0.Kind = "StructValue" /\ DOMAIN x0.StructValue.Fields = Keys
    /\ x0.StructValue.Fields[<<"a">>].Kind = "NumberValue"
    /\ x0.StructValue.Fields[<<"k", "<">>] = NewStringValue(<<"]", ",", "\"", "<">>)
    /\ x.StructValue.Fields[<<"k", "<">>] = NewStringValue(<<"]", ",", "\"", "<">>)

\* A text that is one JSON string token: it opens with a quote and is valid JSON.
IsQuoted(t) == Len(t) >= 2 /\ t[1] = "\"" /\ checkValid(t)

\* A quoted token with no escape in it, closed by its last character.
IsPlainQuoted(t) ==
    /\ IsQuoted(t)
    /\ t[Len(t)] = "\""
    /\ \A i \in 2..(Len(t) - 1) : t[i] \notin {"\\", "xFF"}

\* C2: Value.UnmarshalJSON decodes every valid quoted-string token to the
\* String variant holding the unquoted content, also when the content reads as
\* a boolean or a number; the literal true gives Bool, an unquoted numeric
\* literal gives Number; no token that opens with a quote decodes to Bool or
\* Number.
C2_QuotedIsString ==
    op = "Value.UnmarshalJSON" =>
        /\ IsQuoted(b) => err = <<>> /\ x.Kind = "StringValue"
        /\ IsPlainQuoted(b) => x = NewStringValue(SubSeq(b, 2, Len(b) - 1))
        /\ b = <<"\"", "t", "r", "u", "e", "\"">> => x = NewStringValue(<<"t", "r", "u", "e">>)
        /\ b = <<"\"", "1", "\"">> => x = NewStringValue(<<"1">>)
        /\ b = <<"\"", "\\", "u", "0", "0", "3", "C", "\\", "n", "\\", "/", "\"">>
               => x = NewStringValue(<<"<", "\n", "/">>)
        /\ b = <<"t", "r", "u", "e">> => x = NewBoolValue(TRUE) /\ err = <<>>
        /\ b = <<"1">> => x = NewNumberValue(FloatOfInt(1)) /\ err = <<>>
        /\ b = <<"1", ".", "5", "e", "3">> => x = NewNumberValue(FloatOfInt(1500)) /\ err = <<>>
        /\ (b # <<>> /\ b[1] = "\"" /\ err = <<>>) => x.Kind \notin {"BoolValue", "NumberValue"}

\* The token "true", quotes included, has been decoded into a receiver that
\* held a Bool, and the receiver now holds a String.
C2_Witness ==
    /\ op = "Value.UnmarshalJSON"
    /\ b = <<"\"", "t", "r", "u", "e", "\"">>
    /\ x0 = NewBoolValue(TRUE)
    /\ x.Kind = "StringValue" /\ x.StringValue = <<"t", "r", "u", "e">>

\* The types NewValue's switch has a case for.
CaseTypes ==
    {"nil", "bool", "string", "[]uint8", "map[string]interface {}", "[]interface {}"} \cup IntTypes \cup FloatTypes

\* The integer widths NewValue's switch has no case for.
NarrowIntTypes == {"int8", "int16", "uint8", "uint16"}

\* A native value built only from nil, bool, integers and floats of the types
\* in T, valid-UTF-8 strings, byte slices, []interface{} and
\* map[string]interface{} with valid-UTF-8 keys.
RECURSIVE BuiltFrom(_, _)
BuiltFrom(n, T) ==
    /\ n.type \in T
    /\ n.type = "string" => ValidString(n.s)
    /\ n.type = "[]interface {}" => \A i \in 1..Len(n.elems) : BuiltFrom(n.elems[i], T)
    /\ n.type = "map[string]interface {}" => \A k \in DOMAIN n.m : ValidString(k) /\ BuiltFrom(n.m[k], T)

\* The string AsInterface gives for a non-finite float.
NonFiniteName(f) ==
    IF f.cls = "nan" THEN <<"N", "a", "N">>
    ELSE IF f.neg THEN <<"-", "I", "n", "f", "i", "n", "i", "t", "y">>
    ELSE <<"I", "n", "f", "i", "n", "i", "t", "y">>

\* n with a byte slice replaced by its base64 string and a non-finite float by
\* its name, everything else as it is.
RECURSIVE TwoExceptions(_)
TwoExceptions(n) ==
    IF n.type = "[]uint8" THEN NatString(EncodeToString(n.bytes))
    ELSE IF n.type \in FloatTypes /\ n.f.cls # "fin" THEN NatString(NonFiniteName(n.f))
    ELSE IF n.type = "[]interface {}" /\ ~n.isNil
         THEN [n EXCEPT !.elems = [i \in 1..Len(n.elems) |-> TwoExceptions(n.elems[i])]]
    ELSE IF n.type = "map[string]interface {}" /\ ~n.isNil
         THEN [n EXCEPT !.m = [k \in DOMAIN n.m |-> TwoExceptions(n.m[k])]]
    ELSE n

\* As TwoExceptions, and besides: an integer and a float32 become the float64
\* of the same value, a nil slice the empty slice, a nil map the empty map.
RECURSIVE Widened(_)
Widened(n) ==
    IF n.type = "[]uint8" THEN NatString(EncodeToString(n.bytes))
    ELSE IF n.type \in FloatTypes
         THEN IF n.f.cls # "fin" THEN NatString(NonFiniteName(n.f)) ELSE NatFloat("float64", n.f)
    ELSE IF n.type \in IntTypes THEN NatFloat("float64", FloatOfInt(n.i))
    ELSE IF n.type = "[]interface {}" THEN NatSlice([i \in 1..Len(n.elems) |-> Widened(n.elems[i])])
    ELSE IF n.type = "map[string]interface {}" THEN NatMap([k \in DOMAIN n.m |-> Widened(n.m[k])])
    ELSE n

\* C3 as stated: for a native value built from nil, bool, integers of the
\* supported widths, floats, valid-UTF-8 strings, byte slices, slices and maps,
\* NewValue succeeds and AsInterface of its result is deep-equal to the input,
\* but for a byte slice (its base64 string) and a non-finite float (its name).
C3_NativeRoundTrip ==
    BuiltFrom(nat0, CaseTypes) =>
        /\ op = "NewValue" => res = "ok"
        /\ op = "Value.AsInterface" => nat = TwoExceptions(nat0)

\* C3 amended: NewValue succeeds, and AsInterface of its result is the input
\* with every integer and float32 as the float64 of the same value, a byte
\* slice as its base64 string, a non-finite float as "NaN", "Infinity" or
\* "-Infinity", and a nil slice or map as the empty one; nil, bool, string and
\* finite float64 come back as they went in.
C3_NativeRoundTripWidened ==
    BuiltFrom(nat0, CaseTypes) =>
        /\ op = "NewValue" => res = "ok" /\ err = <<>>
        /\ op = "Value.AsInterface" =>
               /\ nat = Widened(nat0)
               /\ nat0.type \in {"nil", "bool", "string"} => nat = nat0
               /\ nat0.type = "float64" /\ nat0.f.cls = "fin" => nat = nat0
               /\ nat0 = NatBytes(<<77, 97>>) => nat = NatString(<<"T", "W", "E", "=">>)
               /\ nat0 = NatFloat("float64", Inf(TRUE)) => nat = NatString(<<"-", "I", "n", "f", "i", "n", "i", "t", "y">>)

\* A slice of an int, a NaN and a byte slice has come back from AsInterface
\* as a slice of a float64 and two strings.
C3_Witness ==
    /\ op = "Value.AsInterface"
    /\ nat0.type = "[]interface {}" /\ Len(nat0.elems) = 2
    /\ nat0.elems[1] = NatInt("int", -7) /\ nat.elems[1] = NatFloat("float64", FloatOfInt(-7))
    /\ nat0.elems[2] = NatFloat("float64", NaN) /\ nat.elems[2] = NatString(<<"N", "a", "N">>)

\* Some node of n has a type NewValue's switch has no case for.
RECURSIVE HasOtherType(_)
HasOtherType(n) ==
    \/ n.type \notin CaseTypes
    \/ n.type = "[]interface {}" /\ \E i \in 1..Len(n.elems) : HasOtherType(n.elems[i])
    \/ n.type = "map[string]interface {}" /\ \E k \in DOMAIN n.m : HasOtherType(n.m[k])

IsInvalidType(e) == Len(e) = 2 /\ e[1] = "invalid type: "

\* C5 as stated: NewValue returns a Number holding the input widened to
\* float64, and no error, for every signed and unsigned integer width and
\* every float width, and an unsupported-type error only for an input outside
\* nil, bool, integer, float, string, []byte, []interface{} and
\* map[string]interface{}.
C5_EveryWidth ==
    op = "NewValue" =>
        /\ nat0.type \in IntTypes \cup NarrowIntTypes =>
               res = "ok" /\ err = <<>> /\ x = NewNumberValue(FloatOfInt(nat0.i))
        /\ nat0.type \in FloatTypes => res = "ok" /\ err = <<>> /\ x = NewNumberValue(nat0.f)
        /\ IsInvalidType(err) => ~BuiltFrom(nat0, CaseTypes \cup NarrowIntTypes)

\* C5 amended: NewValue returns a Number holding the input widened to float64,
\* and no error, for int, int32, int64, uint, uint32, uint64, float32 and
\* float64; for int8, int16, uint8 and uint16, as for any other type its
\* switch has no case for, it returns the error "invalid type: " with the type's
\* name, and it returns that error only when some node of the input has such a
\* type.
C5_SwitchWidths ==
    op = "NewValue" =>
        /\ nat0.type \in IntTypes => res = "ok" /\ err = <<>> /\ x = NewNumberValue(FloatOfInt(nat0.i))
        /\ nat0.type \in FloatTypes => res = "ok" /\ err = <<>> /\ x = NewNumberValue(nat0.f)
        /\ nat0.type \notin CaseTypes => res = "err" /\ err = <<"invalid type: ", nat0.type>> /\ x = NilValue
        /\ IsInvalidType(err) => HasOtherType(nat0)

\* NewValue has made the Number 1200 of a uint64.
C5_Witness ==
    /\ op = "NewValue" /\ res = "ok"
    /\ nat0 = NatInt("uint64", 1200)
    /\ x = NewNumberValue(Float(FALSE, <<1, 2>>, 4))

\* The errors with which the value of member k of the object text t fails to
\* decode.
MemberErrors(t, k) ==
    {o.err : o \in {o \in Value_unmarshal(ZeroValue, jsonUnmarshalRawMap(t).m[k]) : o.err # <<>>}}

\* C6 as stated: when Struct.UnmarshalJSON fails because a member's value
\* cannot be decoded, the error names the member's key and carries the nested
\* cause; in particular the error for the input {"a": } names the key "a".
C6_ErrorNamesKey ==
    op = "Struct.UnmarshalJSON" /\ err # <<>> =>
        /\ jsonUnmarshalRawMap(b).ok =>
               \E k \in DOMAIN jsonUnmarshalRawMap(b).m : \E e \in MemberErrors(b, k) :
                   Contains(err, GoQuote(k)) /\ Contains(err, e)
        /\ b = <<"{", "\"", "a", "\"", ":", " ", "}">> => Contains(err, GoQuote(<<"a">>))

\* C6 amended: when Struct.UnmarshalJSON fails on a text that is a JSON object,
\* the error is "bad value in StructValue for key ", the quoted key of a member
\* whose value does not decode, ": " and that value's error; on a text that is
\* not valid JSON or not an object, {"a": } among them, the error is
\* "bad StructValue: " with the JSON decoder's error and names no key, and the
\* receiver is left as it was.
C6_ErrorNamesKeyOfObject ==
    op = "Struct.UnmarshalJSON" /\ err # <<>> =>
        /\ jsonUnmarshalRawMap(b).ok =>
               \E k \in DOMAIN jsonUnmarshalRawMap(b).m : \E e \in MemberErrors(b, k) :
                   err = <<"bad value in StructValue for key ">> \o GoQuote(k) \o <<":", " ">> \o e
        /\ ~jsonUnmarshalRawMap(b).ok =>
               /\ err = <<"bad StructValue: ">> \o jsonUnmarshalRawMap(b).err
               /\ x = x0
        /\ b = <<"{", "\"", "a", "\"", ":", " ", "}">> => err = <<"bad StructValue: ">> \o SyntaxError
        /\ b = <<"{", "\"", "a", "\"", ":", "t", "}">> => err = <<"bad StructValue: ">> \o SyntaxError
        /\ b = <<"[", "]">> => err = <<"bad StructValue: ">> \o TypeError

\* Struct.UnmarshalJSON of {"a":1,"b":1e999} has failed on the member "b" and
\* says so.
C6_Witness ==
    /\ op = "Struct.UnmarshalJSON"
    /\ b = <<"{", "\"", "a", "\"", ":", "1", ",", "\"", "b", "\"", ":", "1", "e", "9", "9", "9", "}">>
    /\ err = <<"bad value in StructValue for key ", "\"", "b", "\"", ":", " ",
               "unrecognized type for Value ", "\"", "1", "e", "9", "9", "9", "\"">>

\* The first element of the raw elements s that does not decode, or 0.
FirstBadElement(s) ==
    LET Bad == {i \in 1..Len(s) : \E o \in Value_unmarshal(ZeroValue, s[i]) : o.err # <<>>}
    IN IF Bad = {} THEN 0 ELSE CHOOSE i \in Bad : \A j \in Bad : i <= j

\* C7: when ListValue.UnmarshalJSON fails because the element at index i
\* cannot be decoded, the error wraps that element's error together with
\* positional context for i: it is more than the element's own error, which is
\* the same at every index.
C7_ErrorNamesIndex ==
    op = "ListValue.UnmarshalJSON" /\ err # <<>> /\ jsonUnmarshalRawSlice(b).ok =>
        LET s == jsonUnmarshalRawSlice(b).s
            i == FirstBadElement(s)
        IN /\ i > 0
           /\ \A o \in Value_unmarshal(ZeroValue, s[i]) : Contains(err, o.err) /\ err # o.err

\* ListValue.UnmarshalJSON of [1,1e999] has failed with the error that
\* Value.UnmarshalJSON of 1e999 alone gives.
C7_Witness ==
    /\ op = "ListValue.UnmarshalJSON"
    /\ b = <<"[", "1", ",", "1", "e", "9", "9", "9", "]">>
    /\ err = <<"unrecognized type for Value ", "\"", "1", "e", "9", "9", "9", "\"">>

\* C9: Value.UnmarshalJSON produces the Bool variant only for the token true
\* and for the token false; any other token that is not null, a number, a
\* quoted string, an array or an object (t, T, TRUE, True, f, F, FALSE, False)
\* fails with an error naming the token and produces no Bool.
C9_BoolOnlyForLiterals ==
    op = "Value.UnmarshalJSON" =>
        /\ err = <<>> /\ x.Kind = "BoolValue" => b \in {<<"t", "r", "u", "e">>, <<"f", "a", "l", "s", "e">>}
        /\ b \in {<<"t">>, <<"T">>, <<"T", "R", "U", "E">>, <<"T", "r", "u", "e">>,
                  <<"f">>, <<"F">>, <<"F", "A", "L", "S", "E">>, <<"F", "a", "l", "s", "e">>}
               => err = <<"unrecognized type for Value ">> \o GoQuote(b) /\ x = x0

\* Value.UnmarshalJSON of the token T has succeeded and left a Bool true in a
\* fresh receiver.
C9_Witness ==
    /\ op = "Value.UnmarshalJSON"
    /\ b = <<"T">>
    /\ x0 = ZeroValue
    /\ err = <<>> /\ x = NewBoolValue(TRUE)

\* C10: when Value.UnmarshalJSON, ListValue.UnmarshalJSON or
\* Struct.UnmarshalJSON returns an error, the receiver is as it was before the
\* call.
C10_FailureLeavesReceiver ==
    op \in {"Value.UnmarshalJSON", "ListValue.UnmarshalJSON", "Struct.UnmarshalJSON"} /\ err # <<>> => x = x0

\* Value.UnmarshalJSON of [1,1e999,2] into a fresh receiver has failed and
\* left in it a List of the Number 1, an empty Value and a nil slot.
C10_Witness ==
    /\ op = "Value.UnmarshalJSON" /\ err # <<>>
    /\ b = <<"[", "1", ",", "1", "e", "9", "9", "9", ",", "2", "]">>
    /\ x0 = ZeroValue
    /\ x = NewListValue(ListOf(<<NewNumberValue(FloatOfInt(1)), ZeroValue, NilValue>>))

\* A Value with no nil pointer in it.
RECURSIVE NoNilPointer(_)
NoNilPointer(v) ==
    /\ ~v.isNil
    /\ v.Kind = "ListValue" =>
           ~v.ListValue.isNil /\ \A i \in 1..Len(v.ListValue.Values) : NoNilPointer(v.ListValue.Values[i])
    /\ v.Kind = "StructValue" =>
           ~v.StructValue.isNil /\ \A k \in DOMAIN v.StructValue.Fields : NoNilPointer(v.StructValue.Fields[k])

\* C4: encoding an empty or unset container never fails and never yields
\* null: ListValue.MarshalJSON returns [] for nil or empty Values,
\* Struct.MarshalJSON returns {} for nil or empty Fields, and Value.MarshalJSON
\* of a List or Map variant with nil Values, nil Fields or a nil ListValue or
\* Struct pointer returns [] or {}.
C4_EmptyContainers ==
    /\ op = "ListValue.MarshalJSON" /\ x.ListValue.Values = <<>> => res = "ok" /\ b = <<"[", "]">>
    /\ op = "Struct.MarshalJSON" /\ DOMAIN x.StructValue.Fields = {} => res = "ok" /\ b = <<"{", "}">>
    /\ op = "Value.MarshalJSON" /\ x.Kind = "ListValue" /\ x.ListValue.Values = <<>>
           => res = "ok" /\ b = <<"[", "]">>
    /\ op = "Value.MarshalJSON" /\ x.Kind = "StructValue" /\ DOMAIN x.StructValue.Fields = {}
           => res = "ok" /\ b = <<"{", "}">>

\* Value.MarshalJSON of a List variant with a nil ListValue pointer has
\* panicked.
C4_Witness ==
    /\ op = "Value.MarshalJSON"
    /\ x = NewListValue(NilList)
    /\ res = "panic"

\* C8: for every Value, json.Marshal of its AsInterface and its MarshalJSON
\* both succeed and give the same text, NaN and the infinities included, which
\* appear as "NaN", "Infinity" and "-Infinity".  Stated for the Values with no
\* nil pointer in them.
C8_SameEncoding ==
    op = "Value.MarshalJSON" /\ txt.st # "none" /\ NoNilPointer(x) =>
        /\ txt.st = "ok"
        /\ res = "ok"
        /\ b = txt.out

\* For a List of a NaN, json.Marshal of AsInterface has given ["NaN"] and
\* MarshalJSON has returned an error.
C8_Witness ==
    /\ op = "Value.MarshalJSON"
    /\ x = NewListValue(ListOf(<<NewNumberValue(NaN)>>))
    /\ txt = Ok(<<"[", "\"", "N", "a", "N", "\"", "]">>)
    /\ res = "err"

====
